---- MODULE Spec2Model ----
(***************************************************************************)
(* The aggregation-and-delivery engine of influxdb-firehose-nozzle         *)
(* (package influxdbclient): Client.AddMetric, Client.AlertSlowConsumer-   *)
(* Error and Client.PostMetrics over the batch metricPoints and the two    *)
(* counters.                                                               *)
(*                                                                         *)
(* Four specifications:                                                    *)
(*   Spec      the calls run one after another (each call is one action),  *)
(*             as the test suite drives the client;                        *)
(*   KeySpec   two envelopes drawn from a wide set are consumed by a fresh *)
(*             client (the grouping key);                                  *)
(*   NameSpec  the calls of Spec, the envelopes named like the internal    *)
(*             series;                                                     *)
(*   ConcSpec  a stream-consumer thread and a flush thread call the client *)
(*             concurrently, each call split at its accesses to the batch. *)
(***************************************************************************)
EXTENDS Integers, Sequences, FiniteSets, TLC

VARIABLES
    metricPoints,           \* Client.metricPoints: metricKey -> metricValue
    totalMessagesReceived,  \* Client.totalMessagesReceived
    totalMetricsSent,       \* Client.totalMetricsSent
    now,                    \* time.Now().Unix()
    flushes,                \* number of PostMetrics calls made so far
    posts,                  \* number of HTTP POSTs the server has received
    delivered,              \* number of lines in the payloads the server accepted
    last,                   \* what PostMetrics did, in the state it returned in
    consumed,               \* envelopes stored since the last delivered render
    alerted,                \* the alert since the last success: raised or not
    feed,                   \* KeySpec: the envelopes still to be consumed
    cpc, c_key, c_mVal, c_env, c_tags,  \* consumer thread: position and locals
    c_inflight,             \* consumer thread: the call began during a flight
    fpc, f_payload, f_count, f_has,   \* flush thread: position and locals
    f_seen, f_ctx,                    \* flush thread: log length at render, call context
    crashed                 \* the Go runtime aborted on a concurrent map access

vars == <<metricPoints, totalMessagesReceived, totalMetricsSent, now, flushes,
          posts, delivered, last, consumed, alerted, feed, cpc, c_key, c_mVal, c_env, c_tags,
          c_inflight,
          fpc, f_payload, f_count, f_has, f_seen, f_ctx, crashed>>

----------------------------------------------------------------------------
(* Bounds of the model.                                                    *)

MaxReceived == 2
MaxFlushes == 2
\* Envelopes received in the concurrent runs.
ConcMaxReceived == 1
\* Envelopes received in the runs of NameSpec.
NameMaxReceived == 1

----------------------------------------------------------------------------
(* Strings.  A tag string is a sequence of characters, so that             *)
(* fmt.Sprintf("%s=%s") is a concatenation and sort.Strings a              *)
(* lexicographic sort.  Metric names are TLA+ strings (only concatenated   *)
(* and compared for equality).                                             *)

\* The characters used, in byte order.
Alphabet == <<"1", "2", "=", "a", "b", "c", "d", "e", "f", "i", "j", "l",
              "m", "n", "o", "p", "t", "x", "y">>

Ord(c) == CHOOSE i \in 1..Len(Alphabet) : Alphabet[i] = c

RECURSIVE StrLess(_, _)
StrLess(s, t) ==
    IF t = <<>> THEN FALSE
    ELSE IF s = <<>> THEN TRUE
    ELSE IF Head(s) = Head(t) THEN StrLess(Tail(s), Tail(t))
    ELSE Ord(Head(s)) < Ord(Head(t))

RECURSIVE InsertSorted(_, _)
InsertSorted(x, s) ==
    IF s = <<>> THEN <<x>>
    ELSE IF StrLess(Head(s), x) THEN <<Head(s)>> \o InsertSorted(x, Tail(s))
    ELSE <<x>> \o s

\* sort.Strings(tags): the tags in increasing lexicographic order.
RECURSIVE SortStrings(_)
SortStrings(tags) ==
    IF tags = <<>> THEN <<>>
    ELSE InsertSorted(Head(tags), SortStrings(Tail(tags)))

\* sha1.Sum([]byte(tag)): a 20-byte digest, taken to be collision-free; the
\* digest of a tag is one fixed-width block labelled by its preimage.
sha1Sum(tag) == <<"sha1", tag>>

RECURSIVE ConcatDigests(_)
ConcatDigests(tags) ==
    IF tags = <<>> THEN <<>>
    ELSE <<sha1Sum(Head(tags))>> \o ConcatDigests(Tail(tags))

\* A variant of hashTags that hashes the tags in the order given.
hashTagsUnsorted(tags) == [tags |-> tags, hash |-> ConcatDigests(tags)]

\* hashTags(tags): sort.Strings sorts the caller's slice in place, then the
\* digests of the tags are concatenated.  tags: the slice as the caller sees
\* it afterwards; hash: the returned string.
hashTags(tags) ==
    LET sorted == SortStrings(tags)
    IN [tags |-> sorted, hash |-> ConcatDigests(sorted)]

Deployment == <<"d", "e", "p", "l", "o", "y", "m", "e", "n", "t">>
Job == <<"j", "o", "b">>
Index == <<"i", "n", "d", "e", "x">>
Ip == <<"i", "p">>
PotatoFace == <<"p", "o", "t", "a", "t", "o", "=", "f", "a", "c", "e">>

\* appendTagIfNotEmpty(tags, key, value)
appendTagIfNotEmpty(tags, key, value) ==
    IF value # <<>> THEN Append(tags, key \o <<"=">> \o value) ELSE tags

RECURSIVE AppendFreeTags(_, _, _)
AppendFreeTags(tags, m, order) ==
    IF order = <<>> THEN tags
    ELSE AppendFreeTags(appendTagIfNotEmpty(tags, Head(order), m[Head(order)]),
                        m, Tail(order))

\* The orders in which a Go range may enumerate the keys of map m.
RangeOrders(m) ==
    {o \in [1..Cardinality(DOMAIN m) -> DOMAIN m] :
        \A i, j \in DOMAIN o : i # j => o[i] # o[j]}

\* parseTags(envelope), the free-form tags enumerated in the given order.
parseTags(envelope, order) ==
    AppendFreeTags(
        appendTagIfNotEmpty(
            appendTagIfNotEmpty(
                appendTagIfNotEmpty(
                    appendTagIfNotEmpty(<<>>, Deployment, envelope.deployment),
                    Job, envelope.job),
                Index, envelope.index),
            Ip, envelope.ip),
        envelope.tags, order)

----------------------------------------------------------------------------
(* Envelopes (events.Envelope).  The getters of an absent sub-message      *)
(* return zero values, so both sub-messages are always records.            *)

ValueMetric == "ValueMetric"
CounterEvent == "CounterEvent"
LogMessage == "LogMessage"
\* The zero value of events.Envelope_EventType, which names no event type.
ZeroEventType == "EventType(0)"

\* time.Second, in nanoseconds.
Second == 1000000000

NoTags == [k \in {} |-> <<>>]

Env(et, origin, ts, deployment, job, tags, name, value, delta, total) ==
    [eventType |-> et, origin |-> origin, timestamp |-> ts,
     deployment |-> deployment, job |-> job, index |-> <<>>, ip |-> <<>>,
     tags |-> tags,
     valueMetric |-> [name |-> IF et = ValueMetric THEN name ELSE "",
                      value |-> IF et = ValueMetric THEN value ELSE 0],
     counterEvent |-> [name |-> IF et = CounterEvent THEN name ELSE "",
                       delta |-> IF et = CounterEvent THEN delta ELSE 0,
                       total |-> IF et = CounterEvent THEN total ELSE 0]]

\* A variant of Supported that lets every event type through.
SupportedAll(envelope) == TRUE

\* The test of line 79, negated: AddMetric goes on past line 81.
Supported(envelope) ==
    ~(envelope.eventType # ValueMetric /\ envelope.eventType # CounterEvent)

\* getName(envelope); called for supported envelopes only.
getName(envelope) ==
    IF envelope.eventType = ValueMetric
    THEN envelope.origin \o "." \o envelope.valueMetric.name
    ELSE envelope.origin \o "." \o envelope.counterEvent.name

\* A variant of getValue that takes a counter's delta.
getValueDelta(envelope) ==
    IF envelope.eventType = ValueMetric
    THEN envelope.valueMetric.value
    ELSE envelope.counterEvent.delta

\* getValue(envelope); called for supported envelopes only.
getValue(envelope) ==
    IF envelope.eventType = ValueMetric
    THEN envelope.valueMetric.value
    ELSE envelope.counterEvent.total

\* A variant of KeyOf that makes the key of the payload name and the hash
\* alone: no event type, no origin.
KeyOfName(envelope, tagsHash) ==
    [eventType |-> ZeroEventType,
     name |-> IF envelope.eventType = ValueMetric
              THEN envelope.valueMetric.name
              ELSE envelope.counterEvent.name,
     tagsHash |-> tagsHash]

\* metricKey of an envelope whose tags hash to tagsHash (AddMetric, lines
\* 84-88).
KeyOf(envelope, tagsHash) ==
    [eventType |-> envelope.eventType,
     name |-> getName(envelope),
     tagsHash |-> tagsHash]

----------------------------------------------------------------------------
(* The batch.                                                              *)

EmptyBatch == [k \in {} |-> 0]

\* The zero metricValue a lookup of an absent key returns.
ZeroValue == [tags |-> <<>>, points |-> <<>>]

Lookup(mp, key) == IF key \in DOMAIN mp THEN mp[key] ELSE ZeroValue

Store(mp, key, mVal) ==
    [k \in DOMAIN mp \cup {key} |-> IF k = key THEN mVal ELSE mp[k]]

\* A variant of Accumulate that sets the tags and appends no point.
AccumulateTags(mVal, envelope, tags) == [tags |-> tags, points |-> mVal.points]

\* The metricValue AddMetric stores (lines 90-97): the tags, as hashTags left
\* them, and one more point.
Accumulate(mVal, envelope, tags) ==
    [tags |-> tags,
     points |-> Append(mVal.points,
                       [Timestamp |-> envelope.timestamp \div Second,
                        Value |-> getValue(envelope)])]

\* Client.ip, Client.deployment and Client.prefix as New received them;
\* Client.tagsHash is never assigned and stays "".
ClientIp == <<"1">>
ClientDeployment == <<"d">>
Prefix == "influxdb.nozzle."
ClientTagsHash == <<>>

InternalKey(name) ==
    [eventType |-> ZeroEventType, name |-> name, tagsHash |-> ClientTagsHash]

\* A variant of addInternalMetric that keeps a series already in the batch.
addInternalMetricKeep(mp, name, value, t) ==
    IF InternalKey(name) \in DOMAIN mp THEN mp
    ELSE Store(mp, InternalKey(name),
               [tags |-> <<Ip \o <<"=">> \o ClientIp,
                           Deployment \o <<"=">> \o ClientDeployment>>,
                points |-> <<[Timestamp |-> t, Value |-> value]>>])

\* A variant of addInternalMetric that appends the point to the series
\* already in the batch.
addInternalMetricAppend(mp, name, value, t) ==
    Store(mp, InternalKey(name),
          [tags |-> <<Ip \o <<"=">> \o ClientIp,
                      Deployment \o <<"=">> \o ClientDeployment>>,
           points |-> Append(Lookup(mp, InternalKey(name)).points,
                             [Timestamp |-> t, Value |-> value])])

\* addInternalMetric(name, value) at time t.
addInternalMetric(mp, name, value, t) ==
    Store(mp, InternalKey(name),
          [tags |-> <<Ip \o <<"=">> \o ClientIp,
                      Deployment \o <<"=">> \o ClientDeployment>>,
           points |-> <<[Timestamp |-> t, Value |-> value]>>])

\* A variant of containsSlowConsumerAlert that never finds the series.
containsSlowConsumerAlertNever(mp) == FALSE

\* containsSlowConsumerAlert()
containsSlowConsumerAlert(mp) == InternalKey("slowConsumerAlert") \in DOMAIN mp

\* A variant of populateInternalMetrics that leaves totalMetricsSent out.
populateInternalMetricsTwo(mp, received, sent, t) ==
    LET a == addInternalMetric(mp, "totalMessagesReceived", received, t)
    IN IF ~containsSlowConsumerAlert(a)
       THEN addInternalMetric(a, "slowConsumerAlert", 0, t)
       ELSE a

\* populateInternalMetrics()
populateInternalMetrics(mp, received, sent, t) ==
    LET a == addInternalMetric(mp, "totalMessagesReceived", received, t)
        b == addInternalMetric(a, "totalMetricsSent", sent, t)
    IN IF ~containsSlowConsumerAlert(b)
       THEN addInternalMetric(b, "slowConsumerAlert", 0, t)
       ELSE b

\* A variant of formatValues that renders the last point only.
formatValuesLast(points) ==
    IF points = <<>> THEN <<>> ELSE <<points[Len(points)].Value>>

RECURSIVE formatValues(_)
\* formatValues(points): one value= field per point, in order.
formatValues(points) ==
    IF points = <<>> THEN <<>>
    ELSE <<Head(points).Value>> \o formatValues(Tail(points))

\* formatTimestamp(points): the first point's seconds (rendered in
\* nanoseconds), or the current time when there is no point.
formatTimestamp(points, t) ==
    IF Len(points) > 0 THEN points[1].Timestamp ELSE t

\* One line of formatMetrics (lines 166-176).
formatLine(key, mVal, t) ==
    [name |-> Prefix \o key.name,
     tags |-> Append(mVal.tags, PotatoFace),
     values |-> formatValues(mVal.points),
     timestamp |-> formatTimestamp(mVal.points, t)]

\* A variant of formatMetrics that stores the tags of each line back into
\* the series.
formatMetricsStoring(mp, t) ==
    [payload |-> [k \in DOMAIN mp |-> formatLine(k, mp[k], t)],
     count |-> Cardinality(DOMAIN mp),
     metricPoints |->
         [k \in DOMAIN mp |-> [mp[k] EXCEPT !.tags = Append(@, PotatoFace)]]]

\* formatMetrics(): the lines, one per key of the batch (the order of the
\* lines in the buffer is that of the map's range and carries nothing), the
\* number of keys, and the batch as the loop leaves it: mVal is the range's
\* copy of the series, so the append of line 166 does not reach the map.
formatMetrics(mp, t) ==
    [payload |-> [k \in DOMAIN mp |-> formatLine(k, mp[k], t)],
     count |-> Cardinality(DOMAIN mp),
     metricPoints |-> mp]

----------------------------------------------------------------------------
(* The HTTP round trip (PostMetrics, lines 118-135).                       *)

\* What the server, or the network, answers to one POST.
Statuses == {101, 200, 201, 299, 300, 400}

\* The server accepted the write: it answered with a 2xx status.
Accepted(resp) == resp.kind = "http" /\ resp.status \in 200..299

\* readable: whether ioutil.ReadAll can read the body, which is read after
\* the status was found to be an error and whatever that status is.
Responses ==
    {[kind |-> "transport", status |-> 0, readable |-> TRUE]}
    \cup {[kind |-> "http", status |-> s, readable |-> TRUE] : s \in Statuses}
    \cup {[kind |-> "http", status |-> 400, readable |-> FALSE]}

NilError == [kind |-> "nil", text |-> "", status |-> 0]

\* A variant of StatusIsError that takes 300 for a success.
StatusIsErrorAbove300(status) == status > 300 \/ status < 200

\* The test of line 124.
StatusIsError(status) == status >= 300 \/ status < 200

\* The error PostMetrics returns for a response (lines 119-130, 135).
ErrorOf(resp) ==
    IF resp.kind = "transport"
    THEN [kind |-> "transport", text |-> "Post: transport error", status |-> 0]
    ELSE IF StatusIsError(resp.status)
    THEN IF ~resp.readable
         THEN [kind |-> "status", text |-> "Can't read response body: %s",
               status |-> resp.status]
         ELSE [kind |-> "status",
               text |-> "InfluxDB request returned HTTP response: %s;\n%s",
               status |-> resp.status]
    ELSE NilError

\* A variant of Commit that adds the number of points, not of series.
CommitPoints(mp, sent, count) ==
    [metricPoints |-> EmptyBatch,
     totalMetricsSent |-> sent + Cardinality(
         UNION {{<<k, i>> : i \in DOMAIN mp[k].points} : k \in DOMAIN mp})]

\* A variant of Commit that sets the counter to the count of this flush.
CommitCount(mp, sent, count) ==
    [metricPoints |-> EmptyBatch, totalMetricsSent |-> count]

\* Lines 132-133: what PostMetrics does to the client after a success.
Commit(mp, sent, count) ==
    [metricPoints |-> EmptyBatch, totalMetricsSent |-> sent + count]

\* A variant of Retain that drops the batch.
RetainNothing(mp, sent) ==
    [metricPoints |-> EmptyBatch, totalMetricsSent |-> sent]

\* Lines 120, 127, 129: an early return leaves the client as it is.
Retain(mp, sent) == [metricPoints |-> mp, totalMetricsSent |-> sent]

\* The client after the response, and the value PostMetrics returns.
Deliver(mp, sent, count, resp) ==
    LET err == ErrorOf(resp)
        c == IF err = NilError THEN Commit(mp, sent, count) ELSE Retain(mp, sent)
    IN [metricPoints |-> c.metricPoints,
        totalMetricsSent |-> c.totalMetricsSent,
        err |-> err]

----------------------------------------------------------------------------
(* The envelopes the stream delivers.                                      *)

X == <<"x">>
Y == <<"y">>
TagsXY == [k \in {X, Y} |-> IF k = X THEN <<"1">> ELSE <<"2">>]

\* E1 and E2 share a key; E3 is a counter event without tags, whose tagsHash
\* is the empty string like that of the internal series; E4 is ignored.
E1 == Env(ValueMetric, "o", Second, <<"d">>, <<"b">>, TagsXY, "m", 5, 0, 0)
E2 == Env(ValueMetric, "o", 2 * Second, <<"d">>, <<"b">>, TagsXY, "m", 7, 0, 0)
E3 == Env(CounterEvent, "o", Second, <<>>, <<>>, NoTags, "m", 0, 1, 5)
E4 == Env(LogMessage, "o", Second, <<"d">>, <<"b">>, NoTags, "", 0, 0, 0)

Envelopes == {E1, E2, E3, E4}

----------------------------------------------------------------------------
(* State.                                                                  *)

NoLast ==
    [valid |-> FALSE, err |-> NilError, resp |-> [kind |-> "none"],
     body |-> EmptyBatch, rendered |-> EmptyBatch, count |-> 0,
     consumedBefore |-> <<>>, alertedBefore |-> [state |-> "no", at |-> 0, late |-> FALSE],
     receivedBefore |-> 0, sentBefore |-> 0]

NoKey == InternalKey("")
NoEnv == [eventType |-> ZeroEventType]
\* alerted.state: "yes" after AlertSlowConsumerError, "sent" once a flush that
\* emitted the alert was accepted, "no" once a later flush was accepted;
\* alerted.at: the number of PostMetrics calls made before the alert.
\* alerted.late: raised after the render of a flush still under way.
NoAlert == [state |-> "no", at |-> 0, late |-> FALSE]
AlertSent == [state |-> "sent", at |-> 0, late |-> FALSE]
NoCtx == [consumed |-> <<>>, alerted |-> NoAlert, received |-> 0, sent |-> 0,
          rendered |-> EmptyBatch, resp |-> [kind |-> "none"]]

\* The client New returns (lines 58-71), with its environment.
InitClient ==
    /\ metricPoints = EmptyBatch
    /\ totalMessagesReceived = 0
    /\ totalMetricsSent = 0
    /\ now = 0
    /\ flushes = 0
    /\ posts = 0
    /\ delivered = 0
    /\ last = NoLast
    /\ consumed = <<>>
    /\ alerted = NoAlert
    /\ cpc = "idle" /\ c_key = NoKey /\ c_mVal = ZeroValue /\ c_env = NoEnv
    /\ c_tags = <<>> /\ c_inflight = FALSE
    /\ fpc = "idle" /\ f_payload = EmptyBatch /\ f_count = 0 /\ f_has = FALSE
    /\ f_seen = 0 /\ f_ctx = NoCtx
    /\ crashed = FALSE

Init == InitClient /\ feed = <<>>

consumerLocals == <<cpc, c_key, c_mVal, c_env, c_tags, c_inflight>>
flusherLocals == <<fpc, f_payload, f_count, f_has, f_seen, f_ctx>>

----------------------------------------------------------------------------
(* The calls, each run to completion (Spec).                               *)

\* AddMetric(envelope), the free-form tags enumerated in `order`.
AddMetricCall(envelope, order) ==
    /\ totalMessagesReceived' = totalMessagesReceived + 1
    /\ IF ~Supported(envelope)
       THEN UNCHANGED <<metricPoints, consumed>>
       ELSE \E h \in {hashTags(parseTags(envelope, order))} :
              \E key \in {KeyOf(envelope, h.hash)} :
               /\ metricPoints' =
                     Store(metricPoints, key,
                           Accumulate(Lookup(metricPoints, key), envelope, h.tags))
               /\ consumed' = Append(consumed, [env |-> envelope, key |-> key,
                                                flush |-> flushes,
                                                inflight |-> FALSE])
    /\ last' = NoLast
    /\ UNCHANGED <<totalMetricsSent, now, flushes, posts, delivered, alerted,
                   consumerLocals, flusherLocals, crashed>>

AddMetric ==
    /\ totalMessagesReceived < MaxReceived
    /\ \E envelope \in Envelopes : \E order \in RangeOrders(envelope.tags) :
           AddMetricCall(envelope, order)
    /\ UNCHANGED feed

\* AlertSlowConsumerError()
AlertSlowConsumerError ==
    /\ metricPoints' = addInternalMetric(metricPoints, "slowConsumerAlert", 1, now)
    /\ alerted' = [state |-> "yes", at |-> flushes, late |-> FALSE]
    /\ last' = NoLast
    /\ UNCHANGED <<totalMessagesReceived, totalMetricsSent, now, flushes, posts, delivered,
                   consumed, feed, consumerLocals, flusherLocals, crashed>>

\* The clock when PostMetrics is called: the second of the call before, or
\* a later one.
Elapsed == {0, 1}

\* PostMetrics(), called at time t, the POST answered by resp.
PostMetricsCall(t) ==
    \E mp \in {populateInternalMetrics(metricPoints, totalMessagesReceived,
                                        totalMetricsSent, t)} :
      \E f \in {formatMetrics(mp, t)} :
        \E resp \in Responses :
          \E d \in {Deliver(f.metricPoints, totalMetricsSent, f.count, resp)} :
            /\ metricPoints' = d.metricPoints
            /\ totalMetricsSent' = d.totalMetricsSent
            /\ last' = [valid |-> TRUE, err |-> d.err, resp |-> resp,
                        body |-> f.payload, rendered |-> mp, count |-> f.count,
                        consumedBefore |-> consumed, alertedBefore |-> alerted,
                        receivedBefore |-> totalMessagesReceived,
                        sentBefore |-> totalMetricsSent]
            /\ delivered' = IF Accepted(resp)
                             THEN delivered + Cardinality(DOMAIN f.payload)
                             ELSE delivered
            /\ consumed' = IF Accepted(resp) THEN <<>> ELSE consumed
            /\ alerted' = IF ~Accepted(resp) THEN alerted
                           ELSE IF alerted.state = "yes" THEN AlertSent
                           ELSE NoAlert

\* A variant of PostMetrics that posts the payload once more when the first
\* attempt failed.
PostMetricsRetry ==
    /\ flushes < MaxFlushes
    /\ \E d \in Elapsed : now' = now + d /\ PostMetricsCall(now + d)
    /\ flushes' = flushes + 1
    /\ posts' = posts + (IF last'.err = NilError THEN 1 ELSE 2)
    /\ UNCHANGED <<totalMessagesReceived, feed, consumerLocals, flusherLocals,
                   crashed>>

\* PostMetrics(): one call, with the one POST of line 118.
PostMetrics ==
    /\ flushes < MaxFlushes
    /\ \E d \in Elapsed : now' = now + d /\ PostMetricsCall(now + d)
    /\ flushes' = flushes + 1
    /\ posts' = posts + 1
    /\ UNCHANGED <<totalMessagesReceived, feed, consumerLocals, flusherLocals,
                   crashed>>

Next == AddMetric \/ AlertSlowConsumerError \/ PostMetrics

Spec == Init /\ [][Next]_vars

----------------------------------------------------------------------------
(* KeySpec: a fresh client consumes two envelopes drawn from a wide set.   *)

\* Free-form tag maps over the keys x and job (the latter renders like the
\* envelope's job field), values empty or not.
FreeKeys == {X, Job}
TagValues == {<<>>, <<"a">>, <<"b">>}
FreeTagMaps == UNION {[D -> TagValues] : D \in SUBSET FreeKeys}

WideEnvelopes ==
    {Env(et, "o", Second, <<>>, job, tags, "m", 5, 1, 5) :
         et \in {ValueMetric, CounterEvent}, job \in TagValues,
         tags \in FreeTagMaps}
    \cup {Env(ValueMetric, "o", 2 * Second, <<>>, <<"a">>, tags, "m", 7, 0, 0) :
              tags \in FreeTagMaps}

KeyInit == InitClient /\ feed \in WideEnvelopes \X WideEnvelopes

\* AddMetric(envelope) of the next envelope of the feed.
FeedAddMetric ==
    /\ feed # <<>>
    /\ \E order \in RangeOrders(Head(feed).tags) : AddMetricCall(Head(feed), order)
    /\ feed' = Tail(feed)

KeyNext == FeedAddMetric

KeySpec == KeyInit /\ [][KeyNext]_vars

----------------------------------------------------------------------------
(* NameSpec: the calls of Spec, the envelopes named like the internal      *)
(* series.                                                                 *)

\* Envelopes without tags (so that their tagsHash is "", the client's), of
\* either supported type, the origin empty or not, the payload name that of
\* an internal series, the value one no internal series takes.
NameEnvelopes ==
    {Env(et, origin, Second, <<>>, <<>>, NoTags, name, 9, 1, 9) :
         et \in {ValueMetric, CounterEvent}, origin \in {"", "o"},
         name \in {"totalMessagesReceived", "totalMetricsSent",
                   "slowConsumerAlert"}}

NameAddMetric ==
    /\ totalMessagesReceived < NameMaxReceived
    /\ \E envelope \in NameEnvelopes : AddMetricCall(envelope, <<>>)
    /\ UNCHANGED feed

NameNext == NameAddMetric \/ AlertSlowConsumerError \/ PostMetrics

NameSpec == Init /\ [][NameNext]_vars

----------------------------------------------------------------------------
(* ConcSpec: the stream consumer calls AddMetric and                       *)
(* AlertSlowConsumerError on one thread while a timer calls PostMetrics on *)
(* another.  The client holds no lock, so a call is a sequence of steps,   *)
(* one per access to the batch, and the steps of the two threads           *)
(* interleave.                                                             *)

\* The envelopes and the answers of the concurrent runs: a metric, a counter
\* and an ignored envelope; a transport error, a rejection and an acceptance.
ConcEnvelopes == {E1, E3, E4}
ConcResponses ==
    {r \in Responses : r.readable /\ (r.kind = "http" => r.status \in {200, 400})}

\* The flush thread is between its render and its reset.
InFlight == fpc \in {"post", "commit"}

\* Lines 78-88: count the envelope, derive its tags and key.
CAddMetricEnter ==
    /\ ~crashed /\ cpc = "idle"
    /\ totalMessagesReceived < ConcMaxReceived
    /\ totalMessagesReceived' = totalMessagesReceived + 1
    /\ \E envelope \in ConcEnvelopes : \E order \in RangeOrders(envelope.tags) :
           IF ~Supported(envelope)
           THEN UNCHANGED consumerLocals
           ELSE /\ cpc' = "load"
                /\ c_env' = envelope
                /\ c_tags' = hashTags(parseTags(envelope, order)).tags
                /\ c_key' = KeyOf(envelope, hashTags(parseTags(envelope, order)).hash)
                /\ c_inflight' = InFlight
                /\ UNCHANGED c_mVal
    /\ last' = NoLast
    /\ UNCHANGED <<metricPoints, totalMetricsSent, now, flushes, posts, delivered, consumed,
                   alerted, feed, flusherLocals, crashed>>

\* Lines 90-97: read the series of the key and append the point to the copy.
CAddMetricLoad ==
    /\ ~crashed /\ cpc = "load"
    /\ c_mVal' = Accumulate(Lookup(metricPoints, c_key), c_env, c_tags)
    /\ cpc' = "store"
    /\ UNCHANGED <<metricPoints, totalMessagesReceived, totalMetricsSent, now,
                   flushes, posts, delivered, last, consumed, alerted, feed, c_key, c_env,
                   c_tags, c_inflight, flusherLocals, crashed>>

\* Line 101: write the copy back.
CAddMetricStore ==
    /\ ~crashed /\ cpc = "store"
    /\ metricPoints' = Store(metricPoints, c_key, c_mVal)
    /\ consumed' = Append(consumed, [env |-> c_env, key |-> c_key,
                                     flush |-> flushes,
                                     inflight |-> c_inflight /\ InFlight])
    /\ cpc' = "idle"
    /\ c_key' = NoKey /\ c_mVal' = ZeroValue /\ c_env' = NoEnv /\ c_tags' = <<>>
    /\ c_inflight' = FALSE
    /\ UNCHANGED <<totalMessagesReceived, totalMetricsSent, now, flushes, posts, delivered,
                   last, alerted, feed, flusherLocals, crashed>>

\* AlertSlowConsumerError(): one write of the batch.
CAlertSlowConsumerError ==
    /\ ~crashed /\ cpc = "idle"
    /\ metricPoints' = addInternalMetric(metricPoints, "slowConsumerAlert", 1, now)
    /\ alerted' = [state |-> "yes", at |-> flushes, late |-> InFlight]
    /\ last' = NoLast
    /\ UNCHANGED <<totalMessagesReceived, totalMetricsSent, now, flushes, posts, delivered,
                   consumed, feed, consumerLocals, flusherLocals, crashed>>

\* Line 105: PostMetrics is entered, by the timer, one interval (a second)
\* after the call before.
FEnter ==
    /\ ~crashed /\ fpc = "idle"
    /\ flushes < MaxFlushes
    /\ flushes' = flushes + 1
    /\ now' = now + 1
    /\ fpc' = "pop_received"
    /\ f_ctx' = [consumed |-> consumed, alerted |-> alerted,
                 received |-> totalMessagesReceived, sent |-> totalMetricsSent,
                 rendered |-> EmptyBatch, resp |-> [kind |-> "none"]]
    /\ last' = NoLast
    /\ UNCHANGED <<metricPoints, totalMessagesReceived, totalMetricsSent,
                   posts, delivered, consumed, alerted, feed, consumerLocals, f_payload,
                   f_count, f_has, f_seen, crashed>>

\* Line 145.
FPopulateReceived ==
    /\ ~crashed /\ fpc = "pop_received"
    /\ metricPoints' = addInternalMetric(metricPoints, "totalMessagesReceived",
                                         totalMessagesReceived, now)
    /\ fpc' = "pop_sent"
    /\ UNCHANGED <<totalMessagesReceived, totalMetricsSent, now, flushes, posts, delivered,
                   last, consumed, alerted, feed, consumerLocals, f_payload,
                   f_count, f_has, f_seen, f_ctx, crashed>>

\* Line 146.
FPopulateSent ==
    /\ ~crashed /\ fpc = "pop_sent"
    /\ metricPoints' = addInternalMetric(metricPoints, "totalMetricsSent",
                                         totalMetricsSent, now)
    /\ fpc' = "pop_check"
    /\ UNCHANGED <<totalMessagesReceived, totalMetricsSent, now, flushes, posts, delivered,
                   last, consumed, alerted, feed, consumerLocals, f_payload,
                   f_count, f_has, f_seen, f_ctx, crashed>>

\* Line 148: the lookup of containsSlowConsumerAlert.
FCheckAlert ==
    /\ ~crashed /\ fpc = "pop_check"
    /\ f_has' = containsSlowConsumerAlert(metricPoints)
    /\ fpc' = IF containsSlowConsumerAlert(metricPoints) THEN "render"
              ELSE "pop_alert"
    /\ UNCHANGED <<metricPoints, totalMessagesReceived, totalMetricsSent, now,
                   flushes, posts, delivered, last, consumed, alerted, feed, consumerLocals,
                   f_payload, f_count, f_seen, f_ctx, crashed>>

\* Line 149.
FPopulateAlert ==
    /\ ~crashed /\ fpc = "pop_alert"
    /\ metricPoints' = addInternalMetric(metricPoints, "slowConsumerAlert", 0, now)
    /\ fpc' = "render"
    /\ UNCHANGED <<totalMessagesReceived, totalMetricsSent, now, flushes, posts, delivered,
                   last, consumed, alerted, feed, consumerLocals, f_payload,
                   f_count, f_has, f_seen, f_ctx, crashed>>

\* Lines 108-111: the payload is rendered from the batch.
FRender ==
    /\ ~crashed /\ fpc = "render"
    /\ f_payload' = formatMetrics(metricPoints, now).payload
    /\ f_count' = formatMetrics(metricPoints, now).count
    /\ f_seen' = Len(consumed)
    /\ f_ctx' = [f_ctx EXCEPT !.rendered = metricPoints]
    /\ metricPoints' = formatMetrics(metricPoints, now).metricPoints
    /\ fpc' = "post"
    /\ UNCHANGED <<totalMessagesReceived, totalMetricsSent, now,
                   flushes, posts, delivered, last, consumed, alerted, feed, consumerLocals,
                   f_has, crashed>>

LastOf(err, resp) ==
    [valid |-> TRUE, err |-> err, resp |-> resp, body |-> f_payload,
     rendered |-> f_ctx.rendered, count |-> f_count,
     consumedBefore |-> f_ctx.consumed, alertedBefore |-> f_ctx.alerted,
     receivedBefore |-> f_ctx.received, sentBefore |-> f_ctx.sent]

\* Lines 118-130: the round trip; an error returns at once.
FPost ==
    /\ ~crashed /\ fpc = "post"
    /\ posts' = posts + 1
    /\ \E resp \in ConcResponses :
         /\ IF ErrorOf(resp) # NilError
            THEN /\ fpc' = "idle"
                 /\ last' = LastOf(ErrorOf(resp), resp)
                 /\ f_ctx' = NoCtx /\ f_payload' = EmptyBatch /\ f_count' = 0
                 /\ f_has' = FALSE /\ f_seen' = 0
            ELSE /\ fpc' = "commit"
                 /\ f_ctx' = [f_ctx EXCEPT !.resp = resp]
                 /\ UNCHANGED <<last, f_payload, f_count, f_has, f_seen>>
         /\ delivered' = IF Accepted(resp)
                          THEN delivered + Cardinality(DOMAIN f_payload)
                          ELSE delivered
         /\ consumed' = IF Accepted(resp)
                        THEN SubSeq(consumed, f_seen + 1, Len(consumed))
                        ELSE consumed
         /\ alerted' = IF ~Accepted(resp) THEN alerted
                       ELSE IF alerted.state = "yes" /\ alerted.late
                       THEN [alerted EXCEPT !.late = FALSE]
                       ELSE IF alerted.state = "yes" THEN AlertSent
                       ELSE NoAlert
    /\ UNCHANGED <<metricPoints, totalMessagesReceived, totalMetricsSent, now,
                   flushes, feed, consumerLocals, crashed>>

\* Lines 132-135: the counter advances and a fresh map replaces the batch.
FCommit ==
    /\ ~crashed /\ fpc = "commit"
    /\ metricPoints' = Commit(metricPoints, totalMetricsSent, f_count).metricPoints
    /\ totalMetricsSent' =
           Commit(metricPoints, totalMetricsSent, f_count).totalMetricsSent
    /\ fpc' = "idle"
    /\ last' = LastOf(NilError, f_ctx.resp)
    /\ f_ctx' = NoCtx /\ f_payload' = EmptyBatch /\ f_count' = 0
    /\ f_has' = FALSE /\ f_seen' = 0
    /\ UNCHANGED <<totalMessagesReceived, now, flushes, posts, delivered, consumed, alerted,
                   feed, consumerLocals, crashed>>

\* The consumer thread is inside AddMetric's read-modify-write of the batch.
ConsumerInBatch == cpc \in {"load", "store"}
\* The flush thread is inside an in-memory step of PostMetrics: populating,
\* rendering, or advancing the counter and replacing the batch.
FlusherInBatch ==
    fpc \in {"pop_received", "pop_sent", "pop_check", "pop_alert", "render",
             "commit"}
FlusherWrites == fpc \in {"pop_received", "pop_sent", "pop_alert", "commit"}

\* Both threads are at an access of the map and one of them writes: the Go
\* runtime may detect it and abort ("fatal error: concurrent map writes", or
\* "concurrent map read and map write"), or the accesses go through in
\* either order.
Fault ==
    /\ ~crashed
    /\ ConsumerInBatch /\ FlusherInBatch
    /\ cpc = "store" \/ FlusherWrites
    /\ crashed' = TRUE
    /\ UNCHANGED <<metricPoints, totalMessagesReceived, totalMetricsSent, now,
                   flushes, posts, delivered, last, consumed, alerted, feed, consumerLocals,
                   flusherLocals>>

\* A second PostMetrics call made while the first awaits its response, run
\* from entry to return.
FOverlap ==
    /\ ~crashed /\ fpc = "post"
    /\ flushes < MaxFlushes
    /\ PostMetricsCall(now)
    /\ flushes' = flushes + 1
    /\ posts' = posts + 1
    /\ UNCHANGED <<totalMessagesReceived, now, feed, consumerLocals,
                   flusherLocals, crashed>>

\* A variant of ConcNext whose timer starts a flush at every tick, whether
\* or not the flush before has returned.
ConcNextOverlap ==
    \/ CAddMetricEnter \/ CAddMetricLoad \/ CAddMetricStore
    \/ CAlertSlowConsumerError
    \/ FEnter \/ FPopulateReceived \/ FPopulateSent \/ FCheckAlert
    \/ FPopulateAlert \/ FRender \/ FPost \/ FCommit
    \/ Fault
    \/ FOverlap

\* The stream consumer is one unit of execution and the timer-driven flush
\* another, which calls PostMetrics once per interval and makes the next
\* call after the one before has returned.
ConcNext ==
    \/ CAddMetricEnter \/ CAddMetricLoad \/ CAddMetricStore
    \/ CAlertSlowConsumerError
    \/ FEnter \/ FPopulateReceived \/ FPopulateSent \/ FCheckAlert
    \/ FPopulateAlert \/ FRender \/ FPost \/ FCommit
    \/ Fault

ConcSpec == Init /\ [][ConcNext]_vars

----------------------------------------------------------------------------
(* What the claims speak of.                                               *)

Range(seq) == {seq[i] : i \in DOMAIN seq}

\* The value the data model gives the point of an envelope.
SpecValue(envelope) ==
    IF envelope.eventType = ValueMetric THEN envelope.valueMetric.value
    ELSE envelope.counterEvent.total

\* The tag strings of an envelope with the number of times each occurs,
\* whatever the order of enumeration.
TagBag(envelope) ==
    LET tags == parseTags(envelope, CHOOSE o \in RangeOrders(envelope.tags) : TRUE)
    IN [t \in Range(tags) |-> Cardinality({i \in DOMAIN tags : tags[i] = t})]

PayloadName(envelope) ==
    IF envelope.eventType = ValueMetric THEN envelope.valueMetric.name
    ELSE envelope.counterEvent.name

\* Event type, origin, payload name and tag set of an envelope.
Identity(envelope) ==
    <<envelope.eventType, envelope.origin, PayloadName(envelope), TagBag(envelope)>>

RECURSIVE ValuesUnder(_, _)
\* The values of the logged envelopes stored under key, in order.
ValuesUnder(log, key) ==
    IF log = <<>> THEN <<>>
    ELSE (IF Head(log).key = key THEN <<SpecValue(Head(log).env)>> ELSE <<>>)
         \o ValuesUnder(Tail(log), key)

RECURSIVE PointsUnder(_, _)
PointsUnder(log, key) ==
    IF log = <<>> THEN <<>>
    ELSE (IF Head(log).key = key
          THEN <<[Timestamp |-> Head(log).env.timestamp \div Second,
                  Value |-> SpecValue(Head(log).env)]>>
          ELSE <<>>)
         \o PointsUnder(Tail(log), key)

InternalNames == {"totalMessagesReceived", "totalMetricsSent", "slowConsumerAlert"}
AlertKey == InternalKey("slowConsumerAlert")

\* The values a payload carries on the lines named slowConsumerAlert.
AlertValues(body) ==
    {body[k].values : k \in {j \in DOMAIN body :
                               body[j].name = Prefix \o "slowConsumerAlert"}}

----------------------------------------------------------------------------
(* Claims checked under Spec.                                              *)

\* C1: when the delivery fails (a non-2xx status or a transport error),
\* PostMetrics returns an error, every series that was in the batch when the
\* payload was rendered is still in the batch with all its points, and
\* totalMetricsSent is unchanged.
C1_FailedFlushRetainsBatch ==
    (last.valid /\ ~Accepted(last.resp)) =>
        /\ last.err # NilError
        /\ \A k \in DOMAIN last.rendered :
               /\ k \in DOMAIN metricPoints
               /\ metricPoints[k].points = last.rendered[k].points
        /\ totalMetricsSent = last.sentBefore

C1_Witness ==
    /\ last.valid
    /\ last.resp.kind = "http" /\ last.resp.status = 400
    /\ Len(last.consumedBefore) = 2
    /\ Cardinality(DOMAIN metricPoints) = 4

\* C2: when the delivery succeeds, PostMetrics returns no error, the batch is
\* empty, and totalMetricsSent has grown by the number of series keys rendered
\* into the payload, the internal series included.
C2_SuccessfulFlushResets ==
    (last.valid /\ Accepted(last.resp)) =>
        /\ last.err = NilError
        /\ metricPoints = EmptyBatch
        /\ totalMetricsSent = last.sentBefore + Cardinality(DOMAIN last.body)

C2_Witness ==
    /\ last.valid /\ Accepted(last.resp)
    /\ \E k \in DOMAIN last.rendered : Len(last.rendered[k].points) = 2
    /\ totalMetricsSent = 4

\* C3: the payload of a PostMetrics call carries, for every key consumed since
\* the last accepted flush, the values of all the envelopes consumed under
\* that key since then, in order: those that earlier failed flushes could not
\* deliver and those consumed after them.
C3_RetryByAccumulation ==
    last.valid =>
        \A i \in DOMAIN last.consumedBefore :
            LET k == last.consumedBefore[i].key
            IN /\ k \in DOMAIN last.body
               /\ last.body[k].values = ValuesUnder(last.consumedBefore, k)

\* An accepted flush whose payload holds a point consumed before an earlier,
\* failed flush and a point consumed after it.
C3_Witness ==
    /\ last.valid /\ Accepted(last.resp)
    /\ last.sentBefore = 0
    /\ \E i, j \in DOMAIN last.consumedBefore :
           /\ last.consumedBefore[i].flush = 0
           /\ last.consumedBefore[j].flush = 1
           /\ last.consumedBefore[i].key = last.consumedBefore[j].key

\* C7: a flush emits slowConsumerAlert with value 1 when
\* AlertSlowConsumerError was called since the last accepted flush and with
\* value 0 otherwise; so after an accepted flush that emitted 1 the next one
\* emits 0 unless the alert was raised again.
C7_SlowConsumerAlert ==
    last.valid =>
        AlertValues(last.body) =
            {<<IF last.alertedBefore.state = "yes" THEN 1 ELSE 0>>}

\* The flush after an accepted flush that emitted 1, no alert in between.
C7_Witness ==
    /\ last.valid
    /\ last.alertedBefore.state = "sent"
    /\ AlertValues(last.body) = {<<0>>}

\* C8: once AlertSlowConsumerError was called, the batch holds the alert with
\* value 1 until a flush is accepted, through failed flushes and AddMetric
\* calls, also when the alert was raised after a failed flush had queued the
\* value 0; and every flush made meanwhile emits 1.
C8_FailedFlushKeepsAlert ==
    /\ alerted.state = "yes" =>
           /\ AlertKey \in DOMAIN metricPoints
           /\ formatValues(metricPoints[AlertKey].points) = <<1>>
    /\ (last.valid /\ last.alertedBefore.state = "yes") =>
           /\ last.body[AlertKey].values = <<1>>
           /\ ~Accepted(last.resp) => alerted = last.alertedBefore

\* A second failed flush, the alert raised after the first one.
C8_Witness ==
    /\ last.valid /\ ~Accepted(last.resp)
    /\ last.sentBefore = 0
    /\ last.alertedBefore.state = "yes" /\ last.alertedBefore.at >= 1
    /\ last.consumedBefore # <<>>

\* C9: PostMetrics returns no error exactly when the response carries a status
\* in [200, 300); for every other status the error carries that status; and
\* after a 2xx status the batch is empty.
C9_ResponseClassification ==
    last.valid =>
        /\ last.err = NilError <=>
               (last.resp.kind = "http" /\ last.resp.status >= 200
                    /\ last.resp.status < 300)
        /\ (last.resp.kind = "http" /\ last.err # NilError) =>
               (last.err.kind = "status" /\ last.err.status = last.resp.status)
        /\ last.err = NilError => metricPoints = EmptyBatch

C9_Witness ==
    /\ last.valid
    /\ last.resp.kind = "http" /\ last.resp.status = 300
    /\ last.err.status = 300
    /\ metricPoints # EmptyBatch

\* C10: the payload of every flush has exactly K + 3 series, K the number of
\* distinct series (event type, origin, name, tag set) consumed since the last
\* accepted flush, and each of the three internal series exactly once.
C10_PayloadSeriesCount ==
    last.valid =>
        /\ Cardinality(DOMAIN last.body) =
               Cardinality({Identity(last.consumedBefore[i].env) :
                                i \in DOMAIN last.consumedBefore}) + 3
        /\ \A n \in InternalNames :
               /\ InternalKey(n) \in DOMAIN last.body
               /\ Cardinality({k \in DOMAIN last.body :
                                   last.body[k].name = Prefix \o n}) = 1

\* An idle flush after a failed idle flush.
C10_Witness ==
    /\ last.valid
    /\ flushes = 2 /\ last.sentBefore = 0
    /\ totalMessagesReceived = 0
    /\ Cardinality(DOMAIN last.body) = 3

\* C11: totalMetricsSent equals the sum, over the accepted flushes, of the
\* number of series (lines) of their payloads: it starts at zero, a flush
\* never lowers it, nothing resets it, and a series of several points counts
\* once.
C11_SentCountsDeliveredSeries ==
    /\ totalMetricsSent = delivered
    /\ last.valid => totalMetricsSent >= last.sentBefore

\* A second accepted flush, whose payload has a series of two points.
C11_Witness ==
    /\ last.valid /\ Accepted(last.resp)
    /\ last.sentBefore = 3
    /\ \E k \in DOMAIN last.rendered : Len(last.rendered[k].points) = 2
    /\ totalMetricsSent = 7

\* C12: in the payload of every flush the totalMessagesReceived line and the
\* totalMetricsSent line each carry exactly one value, the value the counter
\* had when the flush began, also when earlier failed flushes left their
\* internal points in the batch.
C12_InternalCountersOverwritten ==
    last.valid =>
        /\ last.body[InternalKey("totalMessagesReceived")].values =
               <<last.receivedBefore>>
        /\ last.body[InternalKey("totalMetricsSent")].values =
               <<last.sentBefore>>

\* A flush after a failed flush, an envelope received in between.
C12_Witness ==
    /\ last.valid
    /\ flushes = 2 /\ last.sentBefore = 0
    /\ \E i \in DOMAIN last.consumedBefore : last.consumedBefore[i].flush = 1
    /\ last.body[InternalKey("totalMessagesReceived")].values = <<2>>

\* C13: every AddMetric call adds exactly one to totalMessagesReceived,
\* whatever the event type, and a call with an envelope that is neither a
\* ValueMetric nor a CounterEvent changes nothing else: the batch and
\* totalMetricsSent stay as they were.
C13_ConsumeCountsEveryEnvelope ==
    [][(flushes' = flushes /\ alerted' = alerted) =>
         \A envelope \in Envelopes : \A order \in RangeOrders(envelope.tags) :
           AddMetricCall(envelope, order) =>
               /\ totalMessagesReceived' = totalMessagesReceived + 1
               /\ envelope.eventType \notin {ValueMetric, CounterEvent} =>
                      /\ metricPoints' = metricPoints
                      /\ totalMetricsSent' = totalMetricsSent]_vars

\* Two envelopes were received and none of them was stored.
C13_Witness ==
    /\ totalMessagesReceived = 2
    /\ flushes = 0
    /\ metricPoints = EmptyBatch

\* C14: every AddMetric call with a supported envelope appends exactly one
\* point to exactly one series: the series of a key holds, in order, one point
\* per envelope stored under that key since the last accepted flush and no
\* other; the value of the point is the running total for a CounterEvent
\* (not the delta) and the metric's value for a ValueMetric.
C14_PointCarriesTotal ==
    /\ \A i \in DOMAIN consumed : consumed[i].key \in DOMAIN metricPoints
    /\ \A k \in DOMAIN metricPoints :
           k \notin {InternalKey(n) : n \in InternalNames} =>
               metricPoints[k].points = PointsUnder(consumed, k)
    /\ \A i \in DOMAIN consumed :
           consumed[i].env.eventType = CounterEvent =>
               \E j \in DOMAIN metricPoints[consumed[i].key].points :
                   metricPoints[consumed[i].key].points[j].Value =
                       consumed[i].env.counterEvent.total

\* A counter event (delta 1, total 5) and a value metric were stored.
C14_Witness ==
    /\ Len(consumed) = 2
    /\ \E i, j \in DOMAIN consumed :
           /\ consumed[i].env = E3
           /\ metricPoints[consumed[i].key].points =
                  <<[Timestamp |-> 1, Value |-> 5]>>
           /\ consumed[j].env.eventType = ValueMetric

\* C16: the payload has exactly one line per key of the batch, and the count
\* formatMetrics returns is the number of those keys; the line of a key carries
\* one value per point of its series, in the order of the points, which is the
\* order in which the envelopes of that key were consumed.
C16_OneLinePerSeries ==
    last.valid =>
        /\ DOMAIN last.body = DOMAIN last.rendered
        /\ last.count = Cardinality(DOMAIN last.rendered)
        /\ \A k \in DOMAIN last.rendered :
               /\ Len(last.body[k].values) = Len(last.rendered[k].points)
               /\ \A i \in DOMAIN last.rendered[k].points :
                      last.body[k].values[i] = last.rendered[k].points[i].Value
        /\ \A i \in DOMAIN last.consumedBefore :
               Len(last.body[last.consumedBefore[i].key].values) =
                   Cardinality({j \in DOMAIN last.consumedBefore :
                       last.consumedBefore[j].key = last.consumedBefore[i].key})

\* Two value metrics of one key (5, then 7) on one line of a payload of four
\* lines.
C16_Witness ==
    /\ last.valid
    /\ last.count = 4
    /\ \E k \in DOMAIN last.body : last.body[k].values = <<5, 7>>

\* C18: every PostMetrics call makes exactly one delivery attempt, whatever
\* its outcome: the server has received as many POSTs as there were calls, so
\* a failed attempt is repeated only by a later call.
C18_OneAttemptPerFlush == posts = flushes

\* Two calls, both failed, two POSTs.
C18_Witness ==
    /\ last.valid /\ last.err # NilError
    /\ flushes = 2 /\ posts = 2
    /\ totalMetricsSent = 0

\* C19: rendering does not modify the batch: no stored series carries the
\* literal tag potato=face, every line of a payload carries it exactly once,
\* and after a failed flush every series that was rendered is in the batch
\* with the tags and points it had.
C19_RenderLeavesBatch ==
    /\ \A k \in DOMAIN metricPoints :
           PotatoFace \notin Range(metricPoints[k].tags)
    /\ last.valid =>
           \A k \in DOMAIN last.body :
               Cardinality({i \in DOMAIN last.body[k].tags :
                                last.body[k].tags[i] = PotatoFace}) = 1
    /\ (last.valid /\ ~Accepted(last.resp)) =>
           \A k \in DOMAIN last.rendered :
               k \in DOMAIN metricPoints /\ metricPoints[k] = last.rendered[k]

\* A second failed flush rendered a series retained from the first.
C19_Witness ==
    /\ last.valid /\ ~Accepted(last.resp)
    /\ flushes = 2 /\ last.sentBefore = 0
    /\ \E i \in DOMAIN last.consumedBefore :
           /\ last.consumedBefore[i].flush = 0
           /\ Len(last.body[last.consumedBefore[i].key].tags) = 5

\* C20: every series of the batch has at least one point and each internal
\* series exactly one; so every line of a payload is stamped with the time of
\* the first point of its series, never with the current time that
\* formatTimestamp falls back to for an empty series.
C20_SeriesNeverEmpty ==
    /\ \A k \in DOMAIN metricPoints :
           /\ Len(metricPoints[k].points) >= 1
           /\ k \in {InternalKey(n) : n \in InternalNames} =>
                  Len(metricPoints[k].points) = 1
    /\ last.valid =>
           \A k \in DOMAIN last.body :
               /\ Len(last.rendered[k].points) >= 1
               /\ last.body[k].timestamp = last.rendered[k].points[1].Timestamp

\* After two failed flushes the batch holds the three internal series and a
\* series of two points, whose line was stamped with a time that is not the
\* current one.
C20_Witness ==
    /\ last.valid /\ ~Accepted(last.resp)
    /\ Cardinality(DOMAIN metricPoints) = 4
    /\ \E k \in DOMAIN metricPoints :
           /\ Len(metricPoints[k].points) = 2
           /\ last.body[k].timestamp # now

----------------------------------------------------------------------------
(* Claims checked under KeySpec.                                           *)

\* C6: two supported envelopes with the same event type, origin, payload name
\* and tag set (the rendered key=value strings, whatever the order in which
\* the free-form tags were enumerated) are accumulated under one series, which
\* holds a point for each; two envelopes whose tag sets differ are accumulated
\* under two distinct series.
C6_GroupingByKey ==
    \A i, j \in DOMAIN consumed :
        LET a == consumed[i]
            b == consumed[j]
        IN /\ a.key \in DOMAIN metricPoints
           /\ metricPoints[a.key].points = PointsUnder(consumed, a.key)
           /\ Identity(a.env) = Identity(b.env) => a.key = b.key
           /\ TagBag(a.env) # TagBag(b.env) => a.key # b.key

\* Two envelopes of one identity, each with two free-form tags, share a
\* series of two points.
C6_Witness ==
    /\ Len(consumed) = 2
    /\ consumed[1].env # consumed[2].env
    /\ Identity(consumed[1].env) = Identity(consumed[2].env)
    /\ Cardinality(DOMAIN TagBag(consumed[1].env)) = 3
    /\ Cardinality(DOMAIN metricPoints) = 1
    /\ Len(metricPoints[consumed[1].key].points) = 2

\* C17: computing the grouping hash does not reorder the tags: the tags
\* stored for the series of the envelope consumed last are the tags in the
\* order parseTags derived them (deployment, job, index, ip, then the
\* free-form tags in some order of enumeration).
C17_TagsKeepDerivationOrder ==
    consumed # <<>> =>
        LET e == consumed[Len(consumed)]
        IN \E order \in RangeOrders(e.env.tags) :
               metricPoints[e.key].tags = parseTags(e.env, order)

----------------------------------------------------------------------------
(* Claims checked under ConcSpec.                                          *)

\* C4: an AddMetric call that runs, from its entry to its store, while a flush
\* is in flight (after the render, before the reset) is not lost: once that flush has
\* returned, the point is in the batch unless a payload that carried it was
\* accepted.
C4_NoLossDuringFlush ==
    (fpc = "idle" /\ ~crashed) =>
        \A i \in DOMAIN consumed :
            consumed[i].inflight =>
                /\ consumed[i].key \in DOMAIN metricPoints
                /\ \E j \in DOMAIN metricPoints[consumed[i].key].points :
                       metricPoints[consumed[i].key].points[j].Value =
                           SpecValue(consumed[i].env)

\* C5: the consumer thread and the flush thread are never inside an access of
\* the batch or the counters at the same time.
C5_MutualExclusion == ~(ConsumerInBatch /\ FlusherInBatch)

----------------------------------------------------------------------------
(* Claims checked under NameSpec.                                          *)

\* C21: the key of an envelope is never the key of an internal series,
\* whatever its origin and payload name and also without tags.  So AddMetric
\* leaves the internal series alone (each keeps its one point: the alert
\* series the value 1 or 0, the counters' series, after a failed flush, the
\* values that flush gave them) and addInternalMetric leaves the series of
\* the envelopes alone (each holds the points consumed under its key).
C21_InternalKeysApart ==
    LET internal == {InternalKey(n) : n \in InternalNames}
    IN /\ \A i \in DOMAIN consumed :
              /\ consumed[i].key \notin internal
              /\ consumed[i].key \in DOMAIN metricPoints
       /\ \A k \in DOMAIN metricPoints \ internal :
              metricPoints[k].points = PointsUnder(consumed, k)
       /\ AlertKey \in DOMAIN metricPoints =>
              formatValues(metricPoints[AlertKey].points) =
                  <<IF alerted.state = "yes" THEN 1 ELSE 0>>
       /\ (last.valid /\ ~Accepted(last.resp)) =>
              /\ formatValues(
                     metricPoints[InternalKey("totalMessagesReceived")].points)
                     = <<last.receivedBefore>>
              /\ formatValues(
                     metricPoints[InternalKey("totalMetricsSent")].points)
                     = <<last.sentBefore>>

\* After a failed flush the batch holds the three internal series and the
\* series of an envelope without origin and tags named slowConsumerAlert.
C21_Witness ==
    /\ last.valid /\ ~Accepted(last.resp)
    /\ Cardinality(DOMAIN metricPoints) = 4
    /\ \E i \in DOMAIN consumed :
           /\ consumed[i].env.origin = ""
           /\ PayloadName(consumed[i].env) = "slowConsumerAlert"

====
